---- MODULE Spec2Model ----
(***************************************************************************)
(* pi_mood (src/main.py): push-buttons on GPIO input pins; every press     *)
(* that the GPIO facility's event detection lets through uploads one       *)
(* point to influxdb and then flashes the LED.                             *)
(*                                                                         *)
(* Two kinds of execution context appear:                                  *)
(*   - the main thread: main -> gpio_context -> init_gpio -> idle loop ->  *)
(*     close_gpio (lines 113-156);                                         *)
(*   - the edge-delivery context of the GPIO facility, which runs the      *)
(*     callback registered per button (lines 104-110, 141-147).  As in     *)
(*     section 5 of the specification, invocations for one button are      *)
(*     serialized with themselves; invocations for different buttons may   *)
(*     interleave.                                                         *)
(* Time is counted in ticks of 100 ms.                                     *)
(***************************************************************************)
EXTENDS Integers, Sequences, FiniteSets, TLC

\* ------------------------------------------------------------------ bounds
\* Last instant of the clock (ticks).
MaxTime == 5

\* ------------------------------------------------- configuration (models)
\* OverallModel.bouncetime, default 200 ms = 2 ticks.
bouncetime == 2
\* LedModel.flash_time_ms, default 200 ms = 2 ticks.
flash_time_ms == 2
\* InfluxdbModel.measurement_name default.
measurement_name == "pi_mood"

\* LedModel: the pin of the LED.
led == [pin |-> 6]

\* ButtonModel instances.
Happy == [pin |-> 5, label |-> "happy", value |-> 1]
Sad == [pin |-> 7, label |-> "sad", value |-> 2]
SadOnFive == [pin |-> 5, label |-> "sad", value |-> 2]

\* The configurations load_config_from_file can return: OverallModel.buttons
\* is a plain list of ButtonModel and validate() checks types and required
\* fields only, so a list with a repeated pin loads like any other.
Configs == { <<Happy, Sad>>, <<Happy, SadOnFive>> }

\* Pin numbers a callback can be handed by the delivery context.
DeliveredPins == {5, 7, 9}

\* ---------------------------------------------------------------- state
VARIABLES
    buttons,      \* physical_config.buttons, fixed at load time
    mainPc,       \* position of the main thread
    initIdx,      \* index of the button init_gpio's loop handles next
    raised,       \* exception unwinding the main thread ("none" if none)
    listeners,    \* indices of the buttons whose edge detection is armed
    inputPins,    \* channels set up as GPIO.IN: [pin, pull]
    ledOut,       \* TRUE while led.pin is set up as GPIO.OUT
    ledLevel,     \* level driven on led.pin
    cleanups,     \* number of GPIO.cleanup() calls
    now,          \* the clock
    lastcall,     \* per button: instant of the last edge let through (0: none)
    hpc,          \* per button: position of its handler in HandlerSteps (0: idle)
    harg,         \* per button: the ButtonModel its handler was invoked with
    highAt,       \* per button: instant its handler drove the LED high
    invokedAt,    \* per button: instants handler(button) was invoked
    attempts,     \* per button: uploads initiated (write_points called)
    submitted,    \* per button: write_points calls that returned
    points,       \* points written to influxdb: [by, label, value, measurement]
    highs,        \* per button: GPIO.output(led.pin, HIGH) that succeeded
    lows,         \* per button: GPIO.output(led.pin, LOW) that succeeded
    hpin,         \* per button: the pin its callback was last called with
    logged,       \* per button: logger.error calls (line 108) of that call
    escaped       \* per button: exceptions that left the registered callback

vars == << buttons, mainPc, initIdx, raised, listeners, inputPins, ledOut,
           ledLevel, cleanups, now, lastcall, hpc, harg, highAt, invokedAt,
           attempts, submitted, points, highs, lows, hpin, logged, escaped >>

mainVars == << mainPc, initIdx, raised, listeners, inputPins, ledOut, cleanups >>
handlerVars == << lastcall, hpc, harg, highAt, invokedAt, attempts, submitted, points,
                  highs, lows, hpin, logged, escaped >>

Buttons == DOMAIN buttons

NoButton == [pin |-> 0, label |-> "", value |-> 0]

\* The process is running (neither returned from main nor killed).
Alive == mainPc \notin {"exited", "killed"}

\* ----------------------------------------------------- pure definitions
\* The button configured with a pin (NoButton if there is none).
ButtonOfPin(pin) ==
    IF \E b \in Buttons : buttons[b].pin = pin
    THEN buttons[CHOOSE b \in Buttons : buttons[b].pin = pin]
    ELSE NoButton

\* Variant: event detection armed without a bouncetime.
DebounceOff(last, t) == TRUE

\* Event detection armed with bouncetime (line 120): RPi.GPIO runs the
\* callback for an edge when no edge was let through before on that
\* channel, or when more than bouncetime has passed since the last one.
DebounceAccepts(last, t) == last = 0 \/ t - last > bouncetime

\* Variant: the handler is given the button looked up by the delivered pin.
HandlerArgByPin(b, pin) == ButtonOfPin(pin)

\* Variant: every callback shares the button of the loop's last iteration.
HandlerArgLastButton(b, pin) == buttons[Len(buttons)]

\* callback_for_button's closure (lines 105-109): the handler is called
\* with the button captured at registration whatever pin was delivered.
HandlerArg(b, pin) == buttons[b]

\* Variant: flash_led returns without driving the LED low again.
HandlerStepsNoLow == <<"upload", "high">>

\* Variant: the LED is flashed before the upload.
HandlerStepsFlashFirst == <<"high", "low", "upload">>

\* The composed handler (lines 144-146) with flash_led (lines 96-101):
\* upload, LED high, sleep + LED low.
HandlerSteps == <<"upload", "high", "low">>

\* The point post_to_influxdb_callback builds (lines 83-89).
Measurement(button) ==
    [measurement |-> measurement_name, label |-> button.label, value |-> button.value]

\* Position of the handler after finishing step hpc[b]; 0 once it returns.
AfterStep(i) == IF i < Len(HandlerSteps) THEN i + 1 ELSE 0

\* --------------------------------------------------------------- Init
Init ==
    /\ buttons \in Configs
    /\ mainPc = "init"
    /\ initIdx = 1
    /\ raised = "none"
    /\ listeners = {}
    /\ inputPins = {}
    /\ ledOut = FALSE
    /\ ledLevel = "floating"
    /\ cleanups = 0
    /\ now = 1
    /\ lastcall = [b \in {1, 2} |-> 0]
    /\ hpc = [b \in {1, 2} |-> 0]
    /\ harg = [b \in {1, 2} |-> NoButton]
    /\ highAt = [b \in {1, 2} |-> 0]
    /\ invokedAt = [b \in {1, 2} |-> << >>]
    /\ attempts = [b \in {1, 2} |-> 0]
    /\ submitted = [b \in {1, 2} |-> 0]
    /\ points = {}
    /\ highs = [b \in {1, 2} |-> 0]
    /\ lows = [b \in {1, 2} |-> 0]
    /\ hpin = [b \in {1, 2} |-> 0]
    /\ logged = [b \in {1, 2} |-> 0]
    /\ escaped = [b \in {1, 2} |-> 0]

\* ------------------------------------------------------- the main thread
\* GPIO.setup(button.pin, GPIO.IN, pull_up_down=GPIO.PUD_DOWN) (line 118).
InputSetup(button) == [pin |-> button.pin, pull |-> "PUD_DOWN"]

\* close_gpio (lines 127-129), run by the finally clause of gpio_context
\* (line 138): GPIO.cleanup() removes every event detection and returns
\* every channel to an input.  The exception goes on unwinding main.
CloseGpio ==
    /\ cleanups' = cleanups + 1
    /\ listeners' = {}
    /\ inputPins' = {}
    /\ ledOut' = FALSE
    /\ ledLevel' = "floating"
    /\ mainPc' = "unwind"

\* Variant of the loop iteration: the listener is armed without any conflict
\* being detected.
InitButtonNoConflict ==
    /\ mainPc = "init"
    /\ initIdx <= Len(buttons)
    /\ inputPins' = inputPins \cup {InputSetup(buttons[initIdx])}
    /\ listeners' = listeners \cup {initIdx}
    /\ initIdx' = initIdx + 1
    /\ UNCHANGED << raised, mainPc, ledOut, ledLevel, cleanups >>
    /\ UNCHANGED << buttons, now >>
    /\ UNCHANGED << lastcall, hpc, harg, highAt, invokedAt, attempts, submitted,
                    points, highs, lows, hpin, logged, escaped >>

\* One iteration of init_gpio's loop (lines 117-120): GPIO.setup as input,
\* then GPIO.add_event_detect, which raises RuntimeError when edge
\* detection is already enabled for that channel; the exception leaves
\* init_gpio through the finally clause.
InitButton ==
    /\ mainPc = "init"
    /\ initIdx <= Len(buttons)
    /\ IF \E b \in listeners : buttons[b].pin = buttons[initIdx].pin
       THEN /\ raised' = "RuntimeError"
            /\ CloseGpio
            /\ UNCHANGED initIdx
       ELSE /\ inputPins' = inputPins \cup {InputSetup(buttons[initIdx])}
            /\ listeners' = listeners \cup {initIdx}
            /\ initIdx' = initIdx + 1
            /\ UNCHANGED << raised, mainPc, ledOut, ledLevel, cleanups >>
    /\ UNCHANGED << buttons, now >>
    /\ UNCHANGED handlerVars

\* GPIO.setup(led.pin, GPIO.OUT) (line 122).
InitLedSetup ==
    /\ mainPc = "init"
    /\ initIdx > Len(buttons)
    /\ ledOut' = TRUE
    /\ mainPc' = "init_led_low"
    /\ UNCHANGED << buttons, initIdx, raised, listeners, inputPins, ledLevel,
                    cleanups, now >>
    /\ UNCHANGED handlerVars

\* Variant: init_gpio returns without driving the LED pin low.
InitLedLowSkipped ==
    /\ mainPc = "init_led_low"
    /\ mainPc' = "armed"
    /\ UNCHANGED << buttons, initIdx, raised, listeners, inputPins, ledOut,
                    ledLevel, cleanups, now >>
    /\ UNCHANGED << lastcall, hpc, harg, highAt, invokedAt, attempts, submitted,
                    points, highs, lows, hpin, logged, escaped >>

\* GPIO.output(led.pin, GPIO.LOW) (line 123); init_gpio returns, the
\* context manager yields and main enters its idle loop (lines 136, 154).
InitLedLow ==
    /\ mainPc = "init_led_low"
    /\ ledLevel' = "low"
    /\ mainPc' = "armed"
    /\ UNCHANGED << buttons, initIdx, raised, listeners, inputPins, ledOut,
                    cleanups, now >>
    /\ UNCHANGED handlerVars

\* SIGINT: Python raises KeyboardInterrupt in the main thread, inside the
\* try block of gpio_context (lines 134-136), so the finally clause runs
\* close_gpio.
SigInt ==
    /\ mainPc \in {"init", "init_led_low", "armed"}
    /\ raised' = "KeyboardInterrupt"
    /\ CloseGpio
    /\ UNCHANGED << buttons, initIdx, now >>
    /\ UNCHANGED handlerVars

\* SIGTERM: main installs no handler (lines 150-163), so the default
\* disposition ends the process at once; no finally clause runs.
SigTerm ==
    /\ Alive
    /\ mainPc' = "killed"
    /\ UNCHANGED << buttons, initIdx, raised, listeners, inputPins, ledOut,
                    ledLevel, cleanups, now >>
    /\ UNCHANGED handlerVars

\* The exception leaves main (line 163) and the interpreter exits.
Exit ==
    /\ mainPc = "unwind"
    /\ mainPc' = "exited"
    /\ UNCHANGED << buttons, initIdx, raised, listeners, inputPins, ledOut,
                    ledLevel, cleanups, now >>
    /\ UNCHANGED handlerVars

\* ------------------------------------------------------------- the clock
Tick ==
    /\ Alive
    /\ now < MaxTime
    /\ now' = now + 1
    /\ UNCHANGED << buttons, ledLevel >>
    /\ UNCHANGED mainVars
    /\ UNCHANGED handlerVars

\* -------------------------------------------------- the delivery context
\* Variant: the exception ends the whole process.
EscapesEndsProcess(b) ==
    /\ hpc' = [hpc EXCEPT ![b] = 0]
    /\ escaped' = [escaped EXCEPT ![b] = @ + 1]
    /\ mainPc' = "killed"
    /\ UNCHANGED << initIdx, raised, listeners, inputPins, ledOut, cleanups >>

\* An exception leaves the registered callback of button b: the handler
\* is abandoned where it was.  It unwinds on the delivery context only: the
\* main thread is not touched.
Escapes(b) ==
    /\ hpc' = [hpc EXCEPT ![b] = 0]
    /\ escaped' = [escaped EXCEPT ![b] = @ + 1]
    /\ UNCHANGED mainVars

\* A rising edge is processed for the armed button b and, if the event
\* detection lets it through, callback(pin) of callback_for_button runs
\* (lines 105-109): the pin check logs an error on a mismatch and
\* handler(button) is invoked either way.
Edge(b, pin) ==
    /\ Alive
    /\ b \in listeners
    /\ hpc[b] = 0
    /\ DebounceAccepts(lastcall[b], now)
    /\ lastcall' = [lastcall EXCEPT ![b] = now]
    /\ hpin' = [hpin EXCEPT ![b] = pin]
    /\ logged' = [logged EXCEPT ![b] = IF pin # buttons[b].pin THEN 1 ELSE 0]
    /\ invokedAt' = [invokedAt EXCEPT ![b] = Append(@, now)]
    /\ harg' = [harg EXCEPT ![b] = HandlerArg(b, pin)]
    /\ hpc' = [hpc EXCEPT ![b] = 1]
    /\ UNCHANGED << highAt, attempts, submitted, points, highs, lows, escaped >>
    /\ UNCHANGED << buttons, ledLevel, now >>
    /\ UNCHANGED mainVars

\* post_to_influxdb_callback's callback (lines 82-92): write_points
\* either stores the point or raises (no try/except around it, nor around
\* its call at line 145).
Upload(b, ok) ==
    /\ Alive
    /\ hpc[b] > 0
    /\ HandlerSteps[hpc[b]] = "upload"
    /\ attempts' = [attempts EXCEPT ![b] = @ + 1]
    /\ IF ok
       THEN /\ points' = points \cup {[by |-> b] @@ Measurement(harg[b])}
            /\ submitted' = [submitted EXCEPT ![b] = @ + 1]
            /\ hpc' = [hpc EXCEPT ![b] = AfterStep(@)]
            /\ UNCHANGED escaped
            /\ UNCHANGED mainVars
       ELSE /\ Escapes(b)
            /\ UNCHANGED << points, submitted >>
    /\ UNCHANGED << lastcall, harg, highAt, invokedAt, highs, lows, hpin, logged >>
    /\ UNCHANGED << buttons, ledLevel, now >>

\* flash_led, first half (lines 97-98): GPIO.output(led.pin, GPIO.HIGH),
\* which raises RuntimeError unless the channel is set up as an output.
LedOn(b) ==
    /\ Alive
    /\ hpc[b] > 0
    /\ HandlerSteps[hpc[b]] = "high"
    /\ IF ledOut
       THEN /\ ledLevel' = "high"
            /\ highAt' = [highAt EXCEPT ![b] = now]
            /\ highs' = [highs EXCEPT ![b] = @ + 1]
            /\ hpc' = [hpc EXCEPT ![b] = AfterStep(@)]
            /\ UNCHANGED escaped
            /\ UNCHANGED mainVars
       ELSE /\ Escapes(b)
            /\ UNCHANGED << ledLevel, highAt, highs >>
    /\ UNCHANGED << lastcall, harg, invokedAt, attempts, submitted, points, lows, hpin, logged >>
    /\ UNCHANGED << buttons, now >>

\* flash_led, second half (lines 99-101): once time.sleep(flash_time_ms)
\* has returned, GPIO.output(led.pin, GPIO.LOW).
LedOff(b) ==
    /\ Alive
    /\ hpc[b] > 0
    /\ HandlerSteps[hpc[b]] = "low"
    /\ now >= highAt[b] + flash_time_ms
    /\ IF ledOut
       THEN /\ ledLevel' = "low"
            /\ lows' = [lows EXCEPT ![b] = @ + 1]
            /\ hpc' = [hpc EXCEPT ![b] = AfterStep(@)]
            /\ UNCHANGED escaped
            /\ UNCHANGED mainVars
       ELSE /\ Escapes(b)
            /\ UNCHANGED << ledLevel, lows >>
    /\ UNCHANGED << lastcall, harg, highAt, invokedAt, attempts, submitted, points, highs, hpin, logged >>
    /\ UNCHANGED << buttons, now >>

Next ==
    \/ InitButton
    \/ InitLedSetup
    \/ InitLedLow
    \/ SigInt
    \/ SigTerm
    \/ Exit
    \/ Tick
    \/ \E b \in Buttons, pin \in DeliveredPins : Edge(b, pin)
    \/ \E b \in Buttons, ok \in BOOLEAN : Upload(b, ok)
    \/ \E b \in Buttons : LedOn(b)
    \/ \E b \in Buttons : LedOff(b)

Spec == Init /\ [][Next]_vars

TypeOK ==
    /\ buttons \in Configs
    /\ mainPc \in {"init", "init_led_low", "armed", "unwind", "exited", "killed"}
    /\ now \in 1..MaxTime
    /\ listeners \subseteq Buttons
    /\ \A b \in Buttons : hpc[b] \in 0..Len(HandlerSteps)

\* ------------------------------------------------------------ vocabulary
\* The handler of b is inside flash_led, between set-high and set-low.
InFlash(b) == hpc[b] > 0 /\ HandlerSteps[hpc[b]] = "low"

\* The handler of b is about to drive the LED high.
AtHigh(b) == hpc[b] > 0 /\ HandlerSteps[hpc[b]] = "high"

\* The loaded configuration repeats a pin.
HasDuplicatePin == \E a, b \in Buttons : a # b /\ buttons[a].pin = buttons[b].pin

\* The pins of the configured buttons.
RegisteredPins == {buttons[b].pin : b \in Buttons}

\* ---------------------------------------------------------------- claims
\* C1: on one button pin no two edges that lead to a handler invocation are
\* closer together than bouncetime, and uploads and flashes happen only
\* inside such invocations (an edge inside the window causes neither).
C1_AcceptedEdgesSpaced ==
    \A b \in Buttons :
        /\ \A i, j \in DOMAIN invokedAt[b] :
              i < j => invokedAt[b][j] - invokedAt[b][i] >= bouncetime
        /\ attempts[b] <= Len(invokedAt[b])
        /\ highs[b] <= Len(invokedAt[b])

\* C1 witness: a pin has had two accepted edges, and a third edge arriving
\* now would fall inside the window.
C1_Witness ==
    \E b \in Buttons :
        /\ Len(invokedAt[b]) = 2
        /\ now - lastcall[b] < bouncetime
        /\ b \in listeners

\* C2: the first edge on a pin, and any edge arriving bouncetime or more
\* after the last accepted edge on that pin, is let through to the handler.
C2_BoundaryInclusive ==
    \A b \in listeners :
        (lastcall[b] = 0 \/ now - lastcall[b] >= bouncetime)
            => DebounceAccepts(lastcall[b], now)

\* C3: when the process has ended, GPIO.cleanup has been called exactly
\* once, and never more than once before.
C3_ReleaseExactlyOnce ==
    /\ cleanups <= 1
    /\ ~Alive => cleanups = 1

\* C4: at most one handler is inside flash_led (between its set-high and
\* its set-low) at any time.
C4_FlashMutex == Cardinality({b \in Buttons : InFlash(b)}) <= 1

\* C5: a handler that is about to set, or has set, the LED high for a press
\* has already initiated the upload for that press.
C5_UploadBeforeHigh ==
    \A b \in Buttons :
        /\ (AtHigh(b) \/ InFlash(b)) => attempts[b] = Len(invokedAt[b])
        /\ highs[b] <= attempts[b]

\* C5 witness: a handler has driven the LED high after its upload.
C5_Witness ==
    \E b \in Buttons : InFlash(b) /\ ledLevel = "high" /\ submitted[b] = 1

\* C6: when write_points fails for a press, the handler goes on to the
\* flash step of that press.
C6_FlashAfterFailedUpload ==
    [][\A b \in {1, 2} :
          (attempts'[b] > attempts[b] /\ submitted'[b] = submitted[b])
              => (hpc'[b] > 0 /\ HandlerSteps[hpc'[b]] = "high")]_vars

\* C7: no exception ever leaves the callback registered for a button.
C7_NothingEscapes == \A b \in Buttons : escaped[b] = 0

C9_UnmappedPinNoHandler ==
    \A b \in Buttons : hpc[b] > 0 => hpin[b] \in RegisteredPins

\* C10: when the callback of button b is called with another pin than b's,
\* one error is logged and the handler is invoked once, with button b.
C10_MismatchUsesRegisteredButton ==
    [][\A b \in {1, 2} :
          (lastcall'[b] # lastcall[b] /\ hpin'[b] # buttons[b].pin)
              => /\ logged'[b] = 1
                 /\ invokedAt'[b] = Append(invokedAt[b], now)
                 /\ hpc'[b] = 1
                 /\ harg'[b] = buttons[b]]_vars

\* C10 witness: a handler is running for a call whose pin was not the
\* button's own, and it uploaded the button's own label.
C10_Witness ==
    \E b \in Buttons :
        /\ hpin[b] \notin {0, buttons[b].pin}
        /\ logged[b] = 1
        /\ InFlash(b)
        /\ [by |-> b] @@ Measurement(buttons[b]) \in points

\* C11: no button handler runs while init_gpio has not yet finished, that
\* is before the LED pin is an output driven low and every button is armed.
C11_NoHandlerBeforeInitDone ==
    \A b \in Buttons : hpc[b] > 0 => mainPc \notin {"init", "init_led_low"}

\* C12: GPIO.cleanup never runs while a handler is between its set-high and
\* its set-low.
C12_ReleaseWaitsForPulse ==
    [][cleanups' > cleanups => \A b \in {1, 2} : ~InFlash(b)]_vars

\* C13: once the handler of a button is idle, the points it submitted, its
\* set-high writes and its set-low writes each number as many as the edges
\* accepted on that button.
C13_OnePointOnePulsePerPress ==
    \A b \in Buttons :
        hpc[b] = 0 =>
            /\ submitted[b] = Len(invokedAt[b])
            /\ highs[b] = Len(invokedAt[b])
            /\ lows[b] = Len(invokedAt[b])

\* C14: every point written carries the configured measurement name and the
\* label and value of the button whose listener ran the handler, never
\* those of another button.
C14_PointCarriesOwnButton ==
    \A p \in points :
        /\ p.by \in Buttons
        /\ p.measurement = measurement_name
        /\ p.label = buttons[p.by].label
        /\ p.value = buttons[p.by].value

\* C14 witness: with two buttons on different pins, each has uploaded its
\* own point.
C14_Witness ==
    /\ ~HasDuplicatePin
    /\ \A b \in Buttons : [by |-> b] @@ Measurement(buttons[b]) \in points
    /\ Cardinality(points) = 2

\* C15: at the step that enters Armed, every configured button pin is an
\* input with pull-down, every button has its listener and no pin has two,
\* and the LED pin is an output at level low.
C15_ArmedPinsConfigured ==
    [][(mainPc # "armed" /\ mainPc' = "armed") =>
          /\ inputPins' = {[pin |-> buttons[b].pin, pull |-> "PUD_DOWN"] : b \in Buttons}
          /\ listeners' = Buttons
          /\ \A a, b \in listeners' : a # b => buttons[a].pin # buttons[b].pin
          /\ ledOut'
          /\ ledLevel' = "low"]_vars

\* C15 witness: Armed has just been entered after a handler drove the LED
\* high during the last step of init_gpio.
C15_Witness ==
    /\ mainPc = "armed"
    /\ ledLevel = "low"
    /\ listeners = Buttons
    /\ \E b \in Buttons : InFlash(b)
    /\ \A b \in Buttons : lows[b] = 0

\* C16: after GPIO.cleanup has run, no handler makes a GPIO.output call on
\* the LED pin.
C16_NoLedWriteAfterRelease ==
    [][\A b \in {1, 2} :
          ((AtHigh(b) \/ InFlash(b)) /\ hpc'[b] # hpc[b]) => cleanups = 0]_vars

\* C17: while Armed, the LED is low whenever no handler is between its
\* set-high and its set-low.
C17_IdleLedLow ==
    (mainPc = "armed" /\ \A b \in Buttons : ~InFlash(b)) => ledLevel = "low"

\* C17 witness: Armed, both buttons have finished pulses that overlapped in
\* time, no handler is inside flash_led and the LED is low.
C17_Witness ==
    /\ mainPc = "armed"
    /\ \A b \in Buttons : ~InFlash(b) /\ lows[b] >= 1
    /\ highAt[1] - highAt[2] < flash_time_ms
    /\ highAt[2] - highAt[1] < flash_time_ms
    /\ ledLevel = "low"

\* C18: a handler whose uploads all returned without raising has, once it
\* is over, set the LED high and then low for every accepted press.
C18_UploadedPressFlashed ==
    \A b \in Buttons :
        (hpc[b] = 0 /\ submitted[b] = Len(invokedAt[b]))
            => (highs[b] = submitted[b] /\ lows[b] = submitted[b])

\* C19: the main thread leaves Armed only by a signal (KeyboardInterrupt
\* raised in the main thread, or termination), and an exception leaving a
\* button handler changes neither the main thread's position nor the
\* number of GPIO.cleanup calls.
C19_HandlerFaultLeavesMainAlone ==
    [][/\ (mainPc = "armed" /\ mainPc' # "armed")
              => (raised' = "KeyboardInterrupt" \/ mainPc' = "killed")
       /\ \A b \in {1, 2} :
              escaped'[b] # escaped[b]
                  => (mainPc' = mainPc /\ cleanups' = cleanups /\ listeners' = listeners)]_vars

\* C19 witness: a handler's upload has failed and the main thread is still
\* Armed with nothing released.
C19_Witness ==
    /\ mainPc = "armed"
    /\ cleanups = 0
    /\ \E b \in Buttons :
          /\ escaped[b] >= 1
          /\ attempts[b] > submitted[b]
          /\ lows[b] >= 1
          /\ b \in listeners
====
